---- MODULE Spec2Model ----
(***************************************************************************)
(* A model of syft-parser (src/src/main.rs): one run of main, from the     *)
(* command line to the exit status, with the license normalisation         *)
(* pipeline computed character by character.                               *)
(*                                                                         *)
(* A Rust String is a sequence of one-character strings; Option<T> is a    *)
(* record with a "some" flag.                                              *)
(***************************************************************************)
EXTENDS Naturals, Sequences, FiniteSets

VARIABLES
    argv,               \* env::args(), the program name first
    pc,                 \* position in main
    args,               \* Args returned by parse_args
    syft_output,        \* the decoded SyftOutput, None before the decode
    artifacts,          \* the Vec<Artifact> taken out of syft_output
    licenses_raw,       \* closure locals of the artifact converted last
    all_licenses,
    licenses_formatted,
    csv_records,        \* the CsvRecords collected so far
    file,               \* the output path: untouched, or the rows written
    wtr_header,         \* the csv::Writer's header state
    records_written,    \* records serialized by write_csv so far
    stdout,
    stderr,
    exit_code

vars == <<argv, pc, args, syft_output, artifacts, licenses_raw, all_licenses,
          licenses_formatted, csv_records, file, wtr_header, records_written,
          stdout, stderr, exit_code>>

(***************************************************************************)
(* Bounds                                                                  *)
(***************************************************************************)
MaxArgs == 4        \* command-line arguments after the program name
MaxArtifacts == 2   \* artifacts in a decoded document
MaxPieces == 3      \* pieces concatenated into one license string
MaxEntries == 2     \* license entries of a structured license field

(***************************************************************************)
(* Option<T>                                                               *)
(***************************************************************************)
None == [some |-> FALSE]
Some(x) == [some |-> TRUE, val |-> x]

(***************************************************************************)
(* String literals, as character sequences                                 *)
(***************************************************************************)
sNone == <<"N", "o", "n", "e">>
sAND == <<"A", "N", "D">>
sOR == <<"O", "R">>
sWITH == <<"W", "I", "T", "H">>
opAND == <<" ", "A", "N", "D", " ">>
opOR == <<" ", "O", "R", " ">>
opWITH == <<" ", "W", "I", "T", "H", " ">>
sMIT == <<"M", "I", "T">>
sISC == <<"I", "S", "C">>
sBSD == <<"B", "S", "D">>
sApache == <<"A", "p", "a", "c", "h", "e", "-", "2", ".", "0">>
sBSD3 == <<"B", "S", "D", "-", "3", "-", "C", "l", "a", "u", "s", "e">>
sCustomLicense == <<"C", "u", "s", "t", "o", "m", " ", "L", "i", "c", "e", "n", "s", "e">>
sLicenses == <<"L", "i", "c", "e", "n", "s", "e", "s">>
sepTable == <<"\n">>
sepCsv == <<";", " ">>

(***************************************************************************)
(* str primitives                                                          *)
(***************************************************************************)
Upper == <<"A", "B", "C", "D", "E", "F", "G", "H", "I", "J", "K", "L", "M",
           "N", "O", "P", "Q", "R", "S", "T", "U", "V", "W", "X", "Y", "Z">>
Lower == <<"a", "b", "c", "d", "e", "f", "g", "h", "i", "j", "k", "l", "m",
           "n", "o", "p", "q", "r", "s", "t", "u", "v", "w", "x", "y", "z">>

to_ascii_lowercase(c) ==
    IF \E k \in 1..26 : Upper[k] = c
    THEN Lower[CHOOSE k \in 1..26 : Upper[k] = c]
    ELSE c

eq_ignore_ascii_case(a, b) ==
    /\ Len(a) = Len(b)
    /\ \A k \in 1..Len(a) : to_ascii_lowercase(a[k]) = to_ascii_lowercase(b[k])

is_whitespace(c) == c \in {" ", "\t", "\n", "\r"}

RECURSIVE trim_start(_)
trim_start(s) ==
    IF s # <<>> /\ is_whitespace(Head(s)) THEN trim_start(Tail(s)) ELSE s

RECURSIVE trim_end(_)
trim_end(s) ==
    IF s # <<>> /\ is_whitespace(s[Len(s)])
    THEN trim_end(SubSeq(s, 1, Len(s) - 1))
    ELSE s

trim(s) == trim_end(trim_start(s))

contains(s, pat) ==
    \E k \in 1..(Len(s) + 1) :
        /\ k + Len(pat) - 1 <= Len(s)
        /\ SubSeq(s, k, k + Len(pat) - 1) = pat

\* str::split on a set of delimiter characters: n delimiters give n + 1 parts,
\* the empty ones included.
RECURSIVE split_from(_, _, _, _, _)
split_from(s, delims, k, cur, acc) ==
    IF k > Len(s) THEN Append(acc, cur)
    ELSE IF s[k] \in delims THEN split_from(s, delims, k + 1, <<>>, Append(acc, cur))
    ELSE split_from(s, delims, k + 1, Append(cur, s[k]), acc)

split(s, delims) == split_from(s, delims, 1, <<>>, <<>>)

RECURSIVE join(_, _)
join(parts, sep) ==
    IF parts = <<>> THEN <<>>
    ELSE IF Len(parts) = 1 THEN parts[1]
    ELSE parts[1] \o sep \o join(Tail(parts), sep)

RECURSIVE concat(_)
concat(parts) == IF parts = <<>> THEN <<>> ELSE Head(parts) \o concat(Tail(parts))

(***************************************************************************)
(* parse_args                                                              *)
(***************************************************************************)
ArgsErr(msg) == [ok |-> FALSE, err |-> msg]
ArgsOk(input, csv) == [ok |-> TRUE, input_file |-> input, csv_output |-> csv]

\* Mutant of parse_loop: an unknown argument is skipped instead of refused.
RECURSIVE parse_loop_skipping_unknown(_, _, _, _)
parse_loop_skipping_unknown(a, i, input_file, csv_output) ==
    IF i > Len(a) THEN
        IF input_file.some
        THEN ArgsOk(input_file.val, csv_output)
        ELSE ArgsErr("Input file (-f) is required")
    ELSE IF a[i] = "-f" THEN
        IF i + 1 > Len(a)
        THEN ArgsErr("Missing filename after -f")
        ELSE parse_loop_skipping_unknown(a, i + 2, Some(a[i + 1]), csv_output)
    ELSE IF a[i] = "--csv" THEN
        IF i + 1 > Len(a)
        THEN ArgsErr("Missing filename after --csv")
        ELSE parse_loop_skipping_unknown(a, i + 2, input_file, Some(a[i + 1]))
    ELSE parse_loop_skipping_unknown(a, i + 1, input_file, csv_output)

\* the while loop of parse_args; a is args, i is 1-based
RECURSIVE parse_loop(_, _, _, _)
parse_loop(a, i, input_file, csv_output) ==
    IF i > Len(a) THEN
        IF input_file.some
        THEN ArgsOk(input_file.val, csv_output)
        ELSE ArgsErr("Input file (-f) is required")
    ELSE IF a[i] = "-f" THEN
        IF i + 1 > Len(a)
        THEN ArgsErr("Missing filename after -f")
        ELSE parse_loop(a, i + 2, Some(a[i + 1]), csv_output)
    ELSE IF a[i] = "--csv" THEN
        IF i + 1 > Len(a)
        THEN ArgsErr("Missing filename after --csv")
        ELSE parse_loop(a, i + 2, input_file, Some(a[i + 1]))
    ELSE ArgsErr("Unknown argument")

parse_args(a) ==
    IF Len(a) < 3 THEN ArgsErr("Usage") ELSE parse_loop(a, 2, None, None)

(***************************************************************************)
(* SyftLicense and extract_syft_license_info                               *)
(***************************************************************************)
Simple(s) == [kind |-> "Simple", s |-> s]
Detailed(v, e) == [kind |-> "Detailed", value |-> v, spdx_expression |-> e]

\* the match on the license entry: spdx_expression.or_else(value)
license_str(license) ==
    IF license.kind = "Simple" THEN Some(license.s)
    ELSE IF license.spdx_expression.some THEN license.spdx_expression
    ELSE license.value

\* license_str.and_then(trim, drop when empty)
trimmed_license(license) ==
    LET o == license_str(license)
    IN  IF ~o.some THEN None
        ELSE IF trim(o.val) = <<>> THEN None
        ELSE Some(trim(o.val))

RECURSIVE license_strings(_)
license_strings(license_vec) ==
    IF license_vec = <<>> THEN <<>>
    ELSE LET r == trimmed_license(Head(license_vec))
         IN  (IF r.some THEN <<r.val>> ELSE <<>>) \o license_strings(Tail(license_vec))

extract_syft_license_info(licenses) ==
    IF ~licenses.some THEN sNone
    ELSE IF license_strings(licenses.val) = <<>> THEN sNone
    ELSE join(license_strings(licenses.val), sepTable)

(***************************************************************************)
(* split_license_expression and the splitting closure of main              *)
(***************************************************************************)
is_operator(part) ==
    \/ eq_ignore_ascii_case(part, sAND)
    \/ eq_ignore_ascii_case(part, sOR)
    \/ eq_ignore_ascii_case(part, sWITH)

RECURSIVE keep_identifiers(_)
keep_identifiers(parts) ==
    IF parts = <<>> THEN <<>>
    ELSE LET trimmed == trim(Head(parts))
         IN  (IF trimmed = <<>> \/ is_operator(trimmed) THEN <<>> ELSE <<trimmed>>)
             \o keep_identifiers(Tail(parts))

split_license_expression(license_expr) ==
    keep_identifiers(split(license_expr, {" ", "(", ")"}))

\* Mutant of trim_nonempty: the parts are kept as they are, not trimmed.
RECURSIVE trim_nonempty_untrimmed(_)
trim_nonempty_untrimmed(parts) ==
    IF parts = <<>> THEN <<>>
    ELSE (IF trim(Head(parts)) = <<>> THEN <<>> ELSE <<Head(parts)>>)
         \o trim_nonempty_untrimmed(Tail(parts))

RECURSIVE trim_nonempty(_)
trim_nonempty(parts) ==
    IF parts = <<>> THEN <<>>
    ELSE (IF trim(Head(parts)) = <<>> THEN <<>> ELSE <<trim(Head(parts))>>)
         \o trim_nonempty(Tail(parts))

has_spdx_operator(s) == contains(s, opAND) \/ contains(s, opOR) \/ contains(s, opWITH)

\* Mutant of line_licenses: the semicolon is looked for before the operators.
line_licenses_semicolon_first(license_line) ==
    LET trimmed == trim(license_line)
    IN  IF trimmed = <<>> \/ trimmed = sNone THEN <<>>
        ELSE IF contains(trimmed, <<";">>) THEN trim_nonempty(split(trimmed, {";"}))
        ELSE IF has_spdx_operator(trimmed) THEN split_license_expression(trimmed)
        ELSE <<trimmed>>

\* the flat_map closure, for one line of licenses_raw
line_licenses(license_line) ==
    LET trimmed == trim(license_line)
    IN  IF trimmed = <<>> \/ trimmed = sNone THEN <<>>
        ELSE IF has_spdx_operator(trimmed) THEN split_license_expression(trimmed)
        ELSE IF contains(trimmed, <<";">>) THEN trim_nonempty(split(trimmed, {";"}))
        ELSE <<trimmed>>

RECURSIVE flat_map_lines(_)
flat_map_lines(lines) ==
    IF lines = <<>> THEN <<>>
    ELSE line_licenses(Head(lines)) \o flat_map_lines(Tail(lines))

\* Mutant of filter_tokens: only the empty tokens are removed.
RECURSIVE filter_tokens_keeping_none(_)
filter_tokens_keeping_none(tokens) ==
    IF tokens = <<>> THEN <<>>
    ELSE (IF Head(tokens) # <<>> THEN <<Head(tokens)>> ELSE <<>>)
         \o filter_tokens_keeping_none(Tail(tokens))

\* .filter(|s| !s.is_empty() && s != "None")
RECURSIVE filter_tokens(_)
filter_tokens(tokens) ==
    IF tokens = <<>> THEN <<>>
    ELSE (IF Head(tokens) # <<>> /\ Head(tokens) # sNone THEN <<Head(tokens)>> ELSE <<>>)
         \o filter_tokens(Tail(tokens))

split_all_licenses(raw) == filter_tokens(flat_map_lines(split(raw, {"\n"})))

\* Mutant of format_licenses: CSV mode joins without the empty check.
format_licenses_csv_unchecked(tokens, csv_output) ==
    IF ~csv_output.some
    THEN IF tokens = <<>> THEN sNone ELSE join(tokens, sepTable)
    ELSE join(tokens, sepCsv)

\* Mutant of format_licenses: the separators of the two modes are swapped.
format_licenses_swapped(tokens, csv_output) ==
    IF ~csv_output.some
    THEN IF tokens = <<>> THEN sNone ELSE join(tokens, sepCsv)
    ELSE IF tokens = <<>> THEN sNone ELSE join(tokens, sepTable)

\* licenses_formatted: the output mode is args.csv_output
format_licenses(tokens, csv_output) ==
    IF ~csv_output.some
    THEN IF tokens = <<>> THEN sNone ELSE join(tokens, sepTable)
    ELSE IF tokens = <<>> THEN sNone ELSE join(tokens, sepCsv)

\* Mutant of unwrap_or_unknown: an empty string counts as absent.
unwrap_or_unknown_empty(o) == IF o.some /\ o.val # "" THEN o.val ELSE "Unknown"

unwrap_or_unknown(o) == IF o.some THEN o.val ELSE "Unknown"

CsvRecord(artifact, formatted) ==
    [name |-> unwrap_or_unknown(artifact.name),
     version |-> unwrap_or_unknown(artifact.version),
     artifact_type |-> unwrap_or_unknown(artifact.artifact_type),
     licenses |-> formatted]

\* the map closure of main, for one artifact
convert(artifact, csv_output) ==
    LET raw == extract_syft_license_info(artifact.licenses)
        tokens == split_all_licenses(raw)
        formatted == format_licenses(tokens, csv_output)
    IN  [licenses_raw |-> raw, all_licenses |-> tokens,
         licenses_formatted |-> formatted,
         record |-> CsvRecord(artifact, formatted)]

(***************************************************************************)
(* Inputs                                                                  *)
(***************************************************************************)
ArgTokens == {"-f", "--csv", "x"}
CommandLines ==
    {<<"syft-parser">> \o a : a \in UNION {[1..n -> ArgTokens] : n \in 0..MaxArgs}}

Artifact(n, v, t, l) == [name |-> n, version |-> v, artifact_type |-> t, licenses |-> l]

sMITorISC == sMIT \o opOR \o sISC
sBSDsemiMIT == sBSD \o <<";", " ">> \o sMIT

ArtifactPool ==
    {Artifact(Some("lib-a"), Some("1.0"), Some("npm"), Some(<<Simple(sMIT)>>)),
     Artifact(None, None, None, None),
     Artifact(Some(""), Some(""), Some(""), Some(<<>>)),
     Artifact(None, Some("1.0"), None, Some(<<Detailed(None, Some(sMITorISC))>>)),
     Artifact(Some("lib-a"), None, Some("npm"), Some(<<Simple(sBSDsemiMIT)>>)),
     Artifact(Some("lib-b"), Some("2.0"), None, None)}

\* what serde_json can decode a readable file into: no artifacts key, or an
\* array of artifacts
Documents ==
    {[artifacts |-> None]} \cup
    {[artifacts |-> Some(s)] :
        s \in UNION {[1..n -> ArtifactPool] : n \in 0..MaxArtifacts}}

Pieces ==
    {sMIT, sISC, sNone, opAND, opOR, <<"a", "n", "d">>,
     <<";">>, <<" ">>, <<"(">>, <<"\n">>, <<"\t">>}
PieceStrings ==
    {concat(p) : p \in UNION {[1..n -> Pieces] : n \in 0..MaxPieces}}
ExampleStrings ==
    {sMIT \o opAND \o sApache,
     sBSD3 \o <<";", " ">> \o sMIT,
     sCustomLicense,
     sMIT \o <<";", " ">> \o sISC \o opAND \o sBSD,
     <<"(">> \o sMIT \o opWITH \o sISC \o <<")">>,
     sMIT \o opOR \o <<"\t">> \o sISC}

EntryStrings == {<<" ">>, sMIT, <<" ">> \o sISC \o <<" ">>}
OptEntryStrings == {None} \cup {Some(s) : s \in EntryStrings}
StructuredEntries ==
    {Simple(s) : s \in EntryStrings} \cup
    {Detailed(v, e) : v \in OptEntryStrings, e \in OptEntryStrings}

\* the license fields of the artifacts converted: absent, one bare entry,
\* or a sequence of entries
ExampleFields ==
    {None,
     Some(<<Detailed(Some(sCustomLicense), None), Simple(sMIT)>>),
     Some(<<Detailed(Some(sMIT), Some(sMIT))>>),
     Some(<<Detailed(Some(sMIT), Some(<<>>))>>)} \cup
    {Some(<<Simple(s)>>) : s \in ExampleStrings}
BareFields == {Some(<<Simple(s)>>) : s \in PieceStrings}
StructuredFields ==
    {Some(es) : es \in UNION {[1..n -> StructuredEntries] : n \in 0..MaxEntries}}
LicenseFields(shape) ==
    CASE shape = "example" -> ExampleFields
      [] shape = "bare" -> BareFields
      [] shape = "structured" -> StructuredFields

(***************************************************************************)
(* main                                                                    *)
(***************************************************************************)
NoArgs == [input_file |-> "", csv_output |-> None]
NoFile == [created |-> FALSE, rows |-> <<>>]

Init ==
    /\ argv \in CommandLines
    /\ pc = "parse_args"
    /\ args = NoArgs
    /\ syft_output = None
    /\ artifacts = <<>>
    /\ licenses_raw = <<>>
    /\ all_licenses = <<>>
    /\ licenses_formatted = <<>>
    /\ csv_records = <<>>
    /\ file = NoFile
    /\ wtr_header = "Write"
    /\ records_written = 0
    /\ stdout = <<>>
    /\ stderr = <<>>
    /\ exit_code = None

\* eprintln!(...); process::exit(1)
Fail(msg) ==
    /\ stderr' = Append(stderr, msg)
    /\ exit_code' = Some(1)
    /\ pc' = "exit"

ParseArgsErr ==
    /\ pc = "parse_args"
    /\ ~parse_args(argv).ok
    /\ Fail(parse_args(argv).err)
    /\ UNCHANGED <<argv, args, syft_output, artifacts, licenses_raw, all_licenses,
                   licenses_formatted, csv_records, file, stdout,
                   wtr_header, records_written>>

ParseArgsOk ==
    /\ pc = "parse_args"
    /\ parse_args(argv).ok
    /\ args' = [input_file |-> parse_args(argv).input_file,
                csv_output |-> parse_args(argv).csv_output]
    /\ pc' = "read"
    /\ UNCHANGED <<argv, syft_output, artifacts, licenses_raw, all_licenses,
                   licenses_formatted, csv_records, file, stdout, stderr, exit_code,
                   wtr_header, records_written>>

\* fs::read_to_string fails
ReadErr ==
    /\ pc = "read"
    /\ Fail("Error reading file")
    /\ UNCHANGED <<argv, args, syft_output, artifacts, licenses_raw, all_licenses,
                   licenses_formatted, csv_records, file, stdout,
                   wtr_header, records_written>>

\* Mutant of ReadOk: the output file is created as soon as the input is read.
ReadOk_creating_output ==
    /\ pc = "read"
    /\ pc' = "decode"
    /\ file' = IF args.csv_output.some THEN [created |-> TRUE, rows |-> <<>>] ELSE file
    /\ UNCHANGED <<argv, args, syft_output, artifacts, licenses_raw, all_licenses,
                   licenses_formatted, csv_records, stdout, stderr, exit_code,
                   wtr_header, records_written>>

ReadOk ==
    /\ pc = "read"
    /\ pc' = "decode"
    /\ UNCHANGED <<argv, args, syft_output, artifacts, licenses_raw, all_licenses,
                   licenses_formatted, csv_records, file, stdout, stderr, exit_code,
                   wtr_header, records_written>>

\* serde_json::from_str fails
DecodeErr ==
    /\ pc = "decode"
    /\ Fail("Error parsing Syft JSON")
    /\ UNCHANGED <<argv, args, syft_output, artifacts, licenses_raw, all_licenses,
                   licenses_formatted, csv_records, file, stdout,
                   wtr_header, records_written>>

DecodeOk ==
    /\ pc = "decode"
    /\ \E d \in Documents : syft_output' = Some(d)
    /\ pc' = "artifacts"
    /\ UNCHANGED <<argv, args, artifacts, licenses_raw, all_licenses,
                   licenses_formatted, csv_records, file, stdout, stderr, exit_code,
                   wtr_header, records_written>>

ArtifactsNone ==
    /\ pc = "artifacts"
    /\ ~syft_output.val.artifacts.some
    /\ Fail("No artifacts found in Syft output")
    /\ UNCHANGED <<argv, args, syft_output, artifacts, licenses_raw, all_licenses,
                   licenses_formatted, csv_records, file, stdout,
                   wtr_header, records_written>>

ArtifactsSome ==
    /\ pc = "artifacts"
    /\ syft_output.val.artifacts.some
    /\ artifacts' = syft_output.val.artifacts.val
    /\ pc' = "convert"
    /\ UNCHANGED <<argv, args, syft_output, licenses_raw, all_licenses,
                   licenses_formatted, csv_records, file, stdout, stderr, exit_code,
                   wtr_header, records_written>>

\* one step of artifacts.iter().map(..).collect(): the next artifact
Convert ==
    /\ pc = "convert"
    /\ Len(csv_records) < Len(artifacts)
    /\ LET c == convert(artifacts[Len(csv_records) + 1], args.csv_output)
       IN  /\ licenses_raw' = c.licenses_raw
           /\ all_licenses' = c.all_licenses
           /\ licenses_formatted' = c.licenses_formatted
           /\ csv_records' = Append(csv_records, c.record)
    /\ UNCHANGED <<argv, pc, args, syft_output, artifacts, file, stdout, stderr,
                   exit_code,
                   wtr_header, records_written>>

Collected ==
    /\ pc = "convert"
    /\ Len(csv_records) = Len(artifacts)
    /\ pc' = "output"
    /\ UNCHANGED <<argv, args, syft_output, artifacts, licenses_raw, all_licenses,
                   licenses_formatted, csv_records, file, stdout, stderr, exit_code,
                   wtr_header, records_written>>

\* print_table with no records
PrintTableEmpty ==
    /\ pc = "output"
    /\ ~args.csv_output.some
    /\ csv_records = <<>>
    /\ stdout' = Append(stdout, [kind |-> "No artifacts found.", n |-> 0])
    /\ exit_code' = Some(0)
    /\ pc' = "exit"
    /\ UNCHANGED <<argv, args, syft_output, artifacts, licenses_raw, all_licenses,
                   licenses_formatted, csv_records, file, stderr,
                   wtr_header, records_written>>

PrintTable ==
    /\ pc = "output"
    /\ ~args.csv_output.some
    /\ csv_records # <<>>
    /\ stdout' = stdout \o <<[kind |-> "table", n |-> Len(csv_records)],
                             [kind |-> "Total artifacts", n |-> Len(csv_records)]>>
    /\ exit_code' = Some(0)
    /\ pc' = "exit"
    /\ UNCHANGED <<argv, args, syft_output, artifacts, licenses_raw, all_licenses,
                   licenses_formatted, csv_records, file, stderr,
                   wtr_header, records_written>>

\* File::create fails
CreateErr ==
    /\ pc = "output"
    /\ args.csv_output.some
    /\ Fail("Error creating CSV file")
    /\ UNCHANGED <<argv, args, syft_output, artifacts, licenses_raw, all_licenses,
                   licenses_formatted, csv_records, file, stdout,
                   wtr_header, records_written>>

\* File::create creates or truncates the output path
CreateOk ==
    /\ pc = "output"
    /\ args.csv_output.some
    /\ file' = [created |-> TRUE, rows |-> <<>>]
    /\ pc' = "write_header"
    /\ UNCHANGED <<argv, args, syft_output, artifacts, licenses_raw, all_licenses,
                   licenses_formatted, csv_records, stdout, stderr, exit_code,
                   wtr_header, records_written>>

HeaderRow == <<"Name", "Version", "Type", sLicenses>>
\* the header csv::Writer::serialize derives from the fields of CsvRecord
FieldNamesRow ==
    <<"name", "version", "artifact_type", <<"l", "i", "c", "e", "n", "s", "e", "s">>>>
RecordRow(r) == <<r.name, r.version, r.artifact_type, r.licenses>>

\* csv::Writer::from_writer (has_headers is on by default), then
\* wtr.write_record(header), which leaves the writer's header state alone
WriteHeader ==
    /\ pc = "write_header"
    /\ file' = [file EXCEPT !.rows = Append(@, HeaderRow)]
    /\ wtr_header' = "Write"
    /\ records_written' = 0
    /\ pc' = "write_records"
    /\ UNCHANGED <<argv, args, syft_output, artifacts, licenses_raw, all_licenses,
                   licenses_formatted, csv_records, stdout, stderr, exit_code>>

\* wtr.serialize(record) for the next record: in header state Write the
\* writer first writes the row of field names
serialize(rows, header, record) ==
    (IF header = "Write" THEN Append(rows, FieldNamesRow) ELSE rows)
    \o <<RecordRow(record)>>

WriteRecord ==
    /\ pc = "write_records"
    /\ records_written < Len(csv_records)
    /\ file' = [file EXCEPT
                  !.rows = serialize(@, wtr_header, csv_records[records_written + 1])]
    /\ wtr_header' = "DidWrite"
    /\ records_written' = records_written + 1
    /\ UNCHANGED <<argv, pc, args, syft_output, artifacts, licenses_raw, all_licenses,
                   licenses_formatted, csv_records, stdout, stderr, exit_code>>

WriteFlush ==
    /\ pc = "write_records"
    /\ records_written = Len(csv_records)
    /\ pc' = "written"
    /\ UNCHANGED <<argv, args, syft_output, artifacts, licenses_raw, all_licenses,
                   licenses_formatted, csv_records, file, wtr_header, records_written,
                   stdout, stderr, exit_code>>

\* any ? of write_csv returns Err: the header, a record or the flush
WriteErr ==
    /\ pc \in {"write_header", "write_records"}
    /\ Fail("Error writing CSV")
    /\ UNCHANGED <<argv, args, syft_output, artifacts, licenses_raw, all_licenses,
                   licenses_formatted, csv_records, file, stdout,
                   wtr_header, records_written>>

ReportSuccess ==
    /\ pc = "written"
    /\ stdout' = Append(stdout, [kind |-> "Successfully exported", n |-> Len(csv_records)])
    /\ exit_code' = Some(0)
    /\ pc' = "exit"
    /\ UNCHANGED <<argv, args, syft_output, artifacts, licenses_raw, all_licenses,
                   licenses_formatted, csv_records, file, stderr,
                   wtr_header, records_written>>

Next ==
    \/ ParseArgsErr \/ ParseArgsOk
    \/ ReadErr \/ ReadOk
    \/ DecodeErr \/ DecodeOk
    \/ ArtifactsNone \/ ArtifactsSome
    \/ Convert \/ Collected
    \/ PrintTableEmpty \/ PrintTable
    \/ CreateErr \/ CreateOk
    \/ WriteHeader \/ WriteRecord \/ WriteFlush \/ WriteErr
    \/ ReportSuccess

Spec == Init /\ [][Next]_vars

(***************************************************************************)
(* The conversion of one artifact, over a wide range of license fields:    *)
(* main after the artifacts were taken out of a one-artifact document, in  *)
(* table mode and in CSV mode.                                             *)
(***************************************************************************)
InitLicense ==
    /\ argv \in {<<"syft-parser", "-f", "x">>, <<"syft-parser", "-f", "x", "--csv", "x">>}
    /\ pc = "convert"
    /\ args = [input_file |-> parse_args(argv).input_file,
               csv_output |-> parse_args(argv).csv_output]
    /\ \E shape \in {"example", "bare", "structured"} : \E l \in LicenseFields(shape) :
          /\ artifacts = <<Artifact(None, None, None, l)>>
          /\ syft_output = Some([artifacts |-> Some(artifacts)])
    /\ licenses_raw = <<>>
    /\ all_licenses = <<>>
    /\ licenses_formatted = <<>>
    /\ csv_records = <<>>
    /\ file = NoFile
    /\ wtr_header = "Write"
    /\ records_written = 0
    /\ stdout = <<>>
    /\ stderr = <<>>
    /\ exit_code = None

NextLicense == Convert \/ Collected

SpecLicense == InitLicense /\ [][NextLicense]_vars

(***************************************************************************)
(* Properties of the conversion of one artifact.  They speak of the        *)
(* artifact converted last: artifacts[Len(csv_records)].                   *)
(***************************************************************************)
Converted == Len(csv_records) > 0
LastArtifact == artifacts[Len(csv_records)]
LastRecord == csv_records[Len(csv_records)]
CsvMode == args.csv_output.some

is_blank(s) == trim(s) = <<>>
NotEmptyStr(s) == s # <<>>

\* The candidate of one license entry, as the License Extractor is described.
described_candidate(entry) ==
    IF entry.kind = "Simple" THEN Some(entry.s)
    ELSE IF entry.spdx_expression.some /\ ~is_blank(entry.spdx_expression.val)
         THEN entry.spdx_expression
    ELSE IF entry.value.some /\ ~is_blank(entry.value.val) THEN entry.value
    ELSE None

described_candidates(entries) ==
    LET cand == [k \in 1..Len(entries) |->
                    IF described_candidate(entries[k]).some
                    THEN trim(described_candidate(entries[k]).val)
                    ELSE <<>>]
    IN  SelectSeq(cand, NotEmptyStr)

described_line(licenses) ==
    IF ~licenses.some THEN sNone
    ELSE IF described_candidates(licenses.val) = <<>> THEN sNone
    ELSE join(described_candidates(licenses.val), sepTable)

\* C1: the Normalized License Line of every license field is the described
\* one: per entry the bare text, or the SPDX expression when present and
\* non-blank, otherwise the value when present and non-blank, otherwise
\* nothing; trimmed, joined with newlines, "None" when nothing survives.
C1_CandidateSelection ==
    Converted => licenses_raw = described_line(LastArtifact.licenses)

BlankExpression(entry) ==
    /\ entry.kind = "Detailed"
    /\ entry.spdx_expression.some
    /\ is_blank(entry.spdx_expression.val)

\* What the code does hold to: the described line, for every license field
\* with no entry whose spdxExpression is present but blank.
C1_ExceptBlankExpression ==
    (/\ Converted
     /\ LastArtifact.licenses.some
     /\ \A k \in 1..Len(LastArtifact.licenses.val) :
            ~BlankExpression(LastArtifact.licenses.val[k]))
    => licenses_raw = described_line(LastArtifact.licenses)

\* The Expression Splitter's dispatch for one line, as it is described; the
\* tests are made on the trimmed line.  In the operator case the fragments
\* are taken as they are (as_claimed) or trimmed first.
NotOperator(part) == part # <<>> /\ ~is_operator(part)
NotNoneToken(token) == token # <<>> /\ token # sNone

described_line_tokens(line, as_claimed) ==
    LET l == trim(line)
        fragments == split(l, {" ", "(", ")"})
        parts == split(l, {";"})
    IN  CASE l = <<>> \/ l = sNone -> <<>>
          [] l # <<>> /\ l # sNone /\ has_spdx_operator(l) ->
                IF as_claimed
                THEN SelectSeq(fragments, NotOperator)
                ELSE SelectSeq([k \in 1..Len(fragments) |-> trim(fragments[k])],
                               NotOperator)
          [] l # <<>> /\ l # sNone /\ ~has_spdx_operator(l) /\ contains(l, <<";">>) ->
                SelectSeq([k \in 1..Len(parts) |-> trim(parts[k])], NotEmptyStr)
          [] OTHER -> <<l>>

RECURSIVE described_tokens_of(_, _)
described_tokens_of(lines, as_claimed) ==
    IF lines = <<>> THEN <<>>
    ELSE described_line_tokens(Head(lines), as_claimed)
         \o described_tokens_of(Tail(lines), as_claimed)

described_tokens(raw, as_claimed) ==
    SelectSeq(described_tokens_of(split(raw, {"\n"}), as_claimed), NotNoneToken)

\* C2 as claimed: the Atomic License Tokens of every Normalized License Line
\* are those of the described dispatch, line by line: nothing for a blank
\* line or "None"; else the fragments between spaces and parentheses, less
\* the empty ones and AND/OR/WITH in any case, when the line holds " AND ",
\* " OR " or " WITH "; else the trimmed non-empty parts between semicolons
\* when it holds one; else the trimmed line; and no token is empty or "None".
C2_SplitterDispatch_AsClaimed ==
    Converted => all_licenses = described_tokens(licenses_raw, TRUE)

\* C2 as amended: the same dispatch, where in the operator case every
\* fragment is trimmed before the empty ones and AND/OR/WITH are discarded;
\* "MIT AND Apache-2.0" gives MIT, Apache-2.0 and "BSD-3-Clause; MIT" gives
\* BSD-3-Clause, MIT.
C2_SplitterDispatch ==
    Converted =>
        /\ all_licenses = described_tokens(licenses_raw, FALSE)
        /\ licenses_raw = sMIT \o opAND \o sApache => all_licenses = <<sMIT, sApache>>
        /\ licenses_raw = sBSD3 \o <<";", " ">> \o sMIT => all_licenses = <<sBSD3, sMIT>>

C2_Witness ==
    /\ Converted
    /\ licenses_raw = sMIT \o opOR \o <<"\t">> \o sISC
    /\ all_licenses = <<sMIT, sISC>>

\* Feeding tokens back in as bare license entries.
bare_entries(tokens) == [k \in 1..Len(tokens) |-> Simple(tokens[k])]
retokenise(tokens) ==
    split_all_licenses(extract_syft_license_info(Some(bare_entries(tokens))))

NoSeparator(token) ==
    /\ ~contains(token, <<"\n">>)
    /\ ~contains(token, <<";">>)
    /\ ~has_spdx_operator(token)

\* C3: when no Atomic License Token of an artifact holds a newline, a
\* semicolon or " AND ", " OR ", " WITH ", extracting and splitting the tokens
\* joined with newlines gives the same tokens in the same order; in table
\* mode that joined text is the record's licenses string.
C3_RoundTrip ==
    (Converted /\ \A k \in 1..Len(all_licenses) : NoSeparator(all_licenses[k]))
    => /\ split_all_licenses(extract_syft_license_info(
              Some(<<Simple(join(all_licenses, sepTable))>>))) = all_licenses
       /\ ~CsvMode =>
              split_all_licenses(extract_syft_license_info(
                  Some(<<Simple(LastRecord.licenses)>>))) = all_licenses

C3_Witness ==
    /\ Converted
    /\ ~CsvMode
    /\ Len(all_licenses) = 2
    /\ \A k \in 1..Len(all_licenses) : NoSeparator(all_licenses[k])
    /\ \E k \in 1..Len(all_licenses) : contains(all_licenses[k], <<" ">>)

BlankEntry(entry) ==
    /\ entry.kind = "Detailed"
    /\ ~entry.spdx_expression.some
    /\ entry.value.some => is_blank(entry.value.val)

NoLicenseInfo(artifact) ==
    \/ ~artifact.licenses.some
    \/ \A k \in 1..Len(artifact.licenses.val) : BlankEntry(artifact.licenses.val[k])

\* C4: an artifact with no license field, or with only blank entries (a
\* whitespace-only value and no expression, or neither), has no tokens and
\* the licenses string "None", in table mode and in CSV mode.
C4_NoneSentinel ==
    (Converted /\ NoLicenseInfo(LastArtifact))
    => /\ all_licenses = <<>>
       /\ licenses_formatted = sNone
       /\ LastRecord.licenses = sNone

C4_Witness ==
    /\ Converted
    /\ CsvMode
    /\ LastArtifact.licenses.some
    /\ Len(LastArtifact.licenses.val) = 2
    /\ NoLicenseInfo(LastArtifact)
    /\ LastRecord.licenses = sNone

HasSemicolon(token) == contains(token, <<";">>)
MixedLine(line) == has_spdx_operator(trim(line)) /\ contains(line, <<";">>)

\* C9 as claimed: the final tokens of every license field, fed back in as
\* bare entries, give the same tokens.
C9_Idempotent ==
    Converted => retokenise(all_licenses) = all_licenses

\* C9 as amended: the final tokens are trimmed, not empty, not "None", and
\* hold no newline and no space-padded operator; fed back in they give the
\* same tokens exactly when none of them holds a semicolon, and one holds a
\* semicolon only when a line holds both a space-padded operator and a ';'.
C9_IdempotentUnlessSemicolon ==
    Converted =>
        /\ \A k \in 1..Len(all_licenses) :
              /\ all_licenses[k] # <<>>
              /\ all_licenses[k] # sNone
              /\ trim(all_licenses[k]) = all_licenses[k]
              /\ ~contains(all_licenses[k], <<"\n">>)
              /\ ~has_spdx_operator(all_licenses[k])
        /\ (retokenise(all_licenses) = all_licenses)
              <=> (\A k \in 1..Len(all_licenses) : ~HasSemicolon(all_licenses[k]))
        /\ (\E k \in 1..Len(all_licenses) : HasSemicolon(all_licenses[k]))
              => \E j \in 1..Len(split(licenses_raw, {"\n"})) :
                     MixedLine(split(licenses_raw, {"\n"})[j])

C9_Witness ==
    /\ Converted
    /\ contains(licenses_raw, <<";">>)
    /\ Len(all_licenses) = 2
    /\ \A k \in 1..Len(all_licenses) : ~HasSemicolon(all_licenses[k])
    /\ retokenise(all_licenses) = all_licenses

(***************************************************************************)
(* Properties of a run of main                                             *)
(***************************************************************************)
Exited == pc = "exit"
ExitedWith(code) == pc = "exit" /\ exit_code.some /\ exit_code.val = code
OtherMode == IF CsvMode THEN None ELSE Some("x")
Printed(kind) == \E k \in 1..Len(stdout) : stdout[k].kind = kind
Reported(msg) == \E k \in 1..Len(stderr) : stderr[k] = msg

\* C5: the tokens of an artifact are those the other output mode gives, and
\* so are the record's name, version and type; the licenses string is "None"
\* for no tokens, otherwise the tokens joined in order with a newline in
\* table mode and with "; " in CSV mode.
C5_ModeSensitivity ==
    Converted =>
        /\ all_licenses = convert(LastArtifact, OtherMode).all_licenses
        /\ LastRecord.name = convert(LastArtifact, OtherMode).record.name
        /\ LastRecord.version = convert(LastArtifact, OtherMode).record.version
        /\ LastRecord.artifact_type = convert(LastArtifact, OtherMode).record.artifact_type
        /\ LastRecord.licenses = licenses_formatted
        /\ all_licenses = <<>> => licenses_formatted = sNone
        /\ (all_licenses # <<>> /\ ~CsvMode) =>
               licenses_formatted = join(all_licenses, <<"\n">>)
        /\ (all_licenses # <<>> /\ CsvMode) =>
               licenses_formatted = join(all_licenses, <<";", " ">>)

C5_Witness ==
    /\ Converted
    /\ CsvMode
    /\ all_licenses = <<sBSD, sMIT>>
    /\ LastRecord.licenses = sBSD \o <<";", " ">> \o sMIT
    /\ convert(LastArtifact, OtherMode).record.licenses = sBSD \o <<"\n">> \o sMIT

described_field(o) == IF o.some THEN o.val ELSE "Unknown"

\* C6: the records are one per artifact, in the artifacts' order: the i-th
\* record has the i-th artifact's name, version and type, verbatim when
\* present and "Unknown" when absent, and the licenses string of the i-th
\* artifact's license field alone; once the records are collected there are
\* as many records as artifacts.
C6_OneRecordPerArtifact ==
    /\ Len(csv_records) <= Len(artifacts)
    /\ pc \notin {"parse_args", "read", "decode", "artifacts", "convert"}
          => Len(csv_records) = Len(artifacts)
    /\ \A i \in 1..Len(csv_records) :
          /\ csv_records[i].name = described_field(artifacts[i].name)
          /\ csv_records[i].version = described_field(artifacts[i].version)
          /\ csv_records[i].artifact_type = described_field(artifacts[i].artifact_type)
          /\ csv_records[i].licenses =
                convert(artifacts[i], args.csv_output).licenses_formatted

C6_Witness ==
    /\ ExitedWith(0)
    /\ Len(csv_records) = 2
    /\ ~artifacts[1].name.some /\ csv_records[1].name = "Unknown"
    /\ artifacts[2].name.some /\ artifacts[2].name.val = "" /\ csv_records[2].name = ""
    /\ csv_records[2].version = "" /\ csv_records[2].artifact_type = ""

\* C7: a successful CSV run leaves in the file the header row followed by
\* one row per record, in order, and nothing else: N + 1 rows for N records,
\* the second being the first record, and the header alone for no artifacts.
C7_CsvFile ==
    (ExitedWith(0) /\ CsvMode) =>
        /\ file.created
        /\ Len(file.rows) = Len(csv_records) + 1
        /\ file.rows[1] = <<"Name", "Version", "Type", sLicenses>>
        /\ \A i \in 1..Len(csv_records) :
              file.rows[i + 1] = <<csv_records[i].name, csv_records[i].version,
                                   csv_records[i].artifact_type, csv_records[i].licenses>>
        /\ artifacts = <<>> => file.rows = <<<<"Name", "Version", "Type", sLicenses>>>>
        /\ (/\ artifacts # <<>>
            /\ artifacts[1] = Artifact(Some("lib-a"), Some("1.0"), Some("npm"),
                                       Some(<<Simple(sMIT)>>)))
           => file.rows[2] = <<"lib-a", "1.0", "npm", sMIT>>

\* What write_csv leaves in the file of a successful CSV run: the header
\* row, then, when there is a record, the row of field names that the first
\* serialize adds, then one row per record in order.
C7_ActualFile ==
    (ExitedWith(0) /\ CsvMode) =>
        /\ file.created
        /\ file.rows[1] = <<"Name", "Version", "Type", sLicenses>>
        /\ csv_records = <<>> => Len(file.rows) = 1
        /\ csv_records # <<>> =>
              /\ Len(file.rows) = Len(csv_records) + 2
              /\ file.rows[2] = FieldNamesRow
              /\ \A i \in 1..Len(csv_records) :
                    file.rows[i + 2] = <<csv_records[i].name, csv_records[i].version,
                                         csv_records[i].artifact_type,
                                         csv_records[i].licenses>>

\* The argument errors, as the command line is described: an unknown flag,
\* -f or --csv without its argument, or no -f at all.
RECURSIVE described_bad_flags(_)
described_bad_flags(a) ==
    IF a = <<>> THEN FALSE
    ELSE IF Head(a) \notin {"-f", "--csv"} THEN TRUE
    ELSE IF Len(a) = 1 THEN TRUE
    ELSE described_bad_flags(Tail(Tail(a)))

RECURSIVE described_has_input(_)
described_has_input(a) ==
    IF Len(a) < 2 THEN FALSE
    ELSE Head(a) = "-f" \/ described_has_input(Tail(Tail(a)))

ArgumentError == described_bad_flags(Tail(argv)) \/ ~described_has_input(Tail(argv))

ErrorMessages ==
    {"Usage", "Input file (-f) is required", "Missing filename after -f",
     "Missing filename after --csv", "Unknown argument", "Error reading file",
     "Error parsing Syft JSON", "No artifacts found in Syft output",
     "Error creating CSV file", "Error writing CSV"}

\* C8: a run ends with status 1 exactly when it reported an error on
\* standard error, and then standard output is empty; it ends with status 0
\* otherwise, with its table or success message printed.  A run with an
\* argument error never gets past parse_args; a decoded document without
\* artifacts ends the run with status 1, while an empty artifacts array in
\* table mode ends it with status 0.  Nothing follows the exit.
C8_ErrorsAreTerminal ==
    /\ ~Exited => ~exit_code.some /\ stderr = <<>> /\ stdout = <<>>
    /\ Exited => ExitedWith(0) \/ ExitedWith(1)
    /\ Exited => ~ENABLED Next
    /\ ExitedWith(1) <=> (Exited /\ \E m \in ErrorMessages : Reported(m))
    /\ ExitedWith(1) => stdout = <<>>
    /\ ExitedWith(0) => stderr = <<>> /\ stdout # <<>>
    /\ ArgumentError => pc = "parse_args" \/ (ExitedWith(1) /\ ~syft_output.some)
    /\ (syft_output.some /\ ~syft_output.val.artifacts.some)
          => pc = "artifacts" \/ (ExitedWith(1) /\ Reported("No artifacts found in Syft output"))
    /\ (/\ Exited
        /\ syft_output.some
        /\ syft_output.val.artifacts.some
        /\ syft_output.val.artifacts.val = <<>>)
          => IF CsvMode
             THEN ExitedWith(0) \/ Reported("Error creating CSV file")
                                \/ Reported("Error writing CSV")
             ELSE ExitedWith(0) /\ Printed("No artifacts found.")

C8_Witness ==
    /\ ExitedWith(1)
    /\ syft_output.some
    /\ ~syft_output.val.artifacts.some
    /\ CsvMode
    /\ stdout = <<>>
    /\ ~file.created

\* C10: the output file is created only after the arguments were parsed,
\* the document decoded, its artifacts found and every record built; a run
\* that failed before that leaves the output path untouched; the success
\* message is on standard output only with the header and every record in
\* the file.
C10_SideEffectOrder ==
    /\ file.created =>
          /\ pc \in {"write_header", "write_records", "written", "exit"}
          /\ CsvMode
          /\ syft_output.some
          /\ syft_output.val.artifacts.some
          /\ artifacts = syft_output.val.artifacts.val
          /\ Len(csv_records) = Len(artifacts)
    /\ ~file.created => file.rows = <<>>
    /\ (\E m \in ErrorMessages \ {"Error writing CSV"} : Reported(m)) => ~file.created
    /\ Printed("Successfully exported") =>
          /\ file.created
          /\ file.rows # <<>>
          /\ records_written = Len(csv_records)
          /\ ExitedWith(0)

C10_Witness ==
    /\ Printed("Successfully exported")
    /\ file.created
    /\ records_written = 2

====
